---- MODULE Spec2Model ----
(***************************************************************************)
(* Virtual-memory subsystem of the kernel: the Sv39-style three-level page *)
(* table (os/src/mm/page_table.rs), the mapped regions and address spaces  *)
(* (os/src/mm/memory_set.rs) and the syscalls that marshal records into    *)
(* user buffers (os/src/syscall/process.rs).                               *)
(*                                                                         *)
(* Machine words are scaled down so that every address fits TLC's integers:*)
(* a page-table index has IdxBits bits (9 on the hardware), a virtual      *)
(* address has 12 + 3*IdxBits bits (39) and a usize has HighBits more bits *)
(* than a virtual address (25 more on the hardware).  The page size, the   *)
(* flag layout and every algorithm are those of the source.                *)
(***************************************************************************)
EXTENDS Integers, Sequences, FiniteSets, TLC

(* ------------------------------------------------------------------ *)
(* Bounds of the model                                                 *)
(* ------------------------------------------------------------------ *)
IdxBits == 2
HighBits == 2
MaxOps == 3
NFrames == 20
FrameBase == 14

(* ------------------------------------------------------------------ *)
(* config.rs and the address types (address.rs)                        *)
(* ------------------------------------------------------------------ *)
PAGE_SIZE == 4096
PAGE_SIZE_BITS == 12
NIdx == 2 ^ IdxBits
VPN_WIDTH == 3 * IdxBits
VA_WIDTH == PAGE_SIZE_BITS + VPN_WIDTH
USIZE_WIDTH == VA_WIDTH + HighBits
USIZE_MOD == 2 ^ USIZE_WIDTH
VA_MOD == 2 ^ VA_WIDTH
VPN_MOD == 2 ^ VPN_WIDTH

\* usize::MAX - PAGE_SIZE + 1
TRAMPOLINE == USIZE_MOD - PAGE_SIZE
TRAP_CONTEXT_BASE == TRAMPOLINE - PAGE_SIZE
USER_STACK_SIZE == 2 * PAGE_SIZE
\* physical memory: the kernel image ends at page FrameBase (ekernel) and the
\* frames handed out by the allocator are [FrameBase, FrameBase + NFrames)
MEMORY_END == (FrameBase + NFrames) * PAGE_SIZE
\* the PPN field of a page table entry and of satp (44 bits on the hardware)
PPN_WIDTH == USIZE_WIDTH - 10
PPN_MOD == 2 ^ PPN_WIDTH

\* impl From<usize> for VirtAddr: keeps the low VA_WIDTH bits
VirtAddr_from(v) == v % VA_MOD
\* impl From<VirtAddr> for usize: sign-extends bit VA_WIDTH-1
usize_from_VirtAddr(va) ==
    IF va >= VA_MOD \div 2 THEN va + (USIZE_MOD - VA_MOD) ELSE va
\* impl From<VirtPageNum> for VirtAddr
VirtAddr_from_vpn(vpn) == vpn * PAGE_SIZE
floor(va) == va \div PAGE_SIZE
ceil(va) == (va + PAGE_SIZE - 1) \div PAGE_SIZE
page_offset(va) == va % PAGE_SIZE
\* VirtPageNum::indexes: the three level indices, most significant first
indexes(vpn) ==
    << (vpn \div (NIdx * NIdx)) % NIdx, (vpn \div NIdx) % NIdx, vpn % NIdx >>

Min(a, b) == IF a < b THEN a ELSE b
Max(a, b) == IF a > b THEN a ELSE b

(* ------------------------------------------------------------------ *)
(* Page table entries (page_table.rs)                                  *)
(* ------------------------------------------------------------------ *)
PTE_V == 1
PTE_R == 2
PTE_W == 4
PTE_X == 8
PTE_U == 16

\* bit b (a power of two) of x
HasBit(x, b) == (x \div b) % 2 = 1
\* flags | V
WithV(flags) == IF HasBit(flags, PTE_V) THEN flags ELSE flags + PTE_V

\* PageTableEntry::new: ppn << 10 | flags
PageTableEntry_new(ppn, flags) == ppn * 1024 + flags
PageTableEntry_empty == 0
pte_ppn(bits) == (bits \div 1024) % PPN_MOD
pte_flags(bits) == bits % 256
is_valid(bits) == HasBit(pte_flags(bits), PTE_V)
readable(bits) == HasBit(pte_flags(bits), PTE_R)
writable(bits) == HasBit(pte_flags(bits), PTE_W)
executable(bits) == HasBit(pte_flags(bits), PTE_X)

\* MapPermission shares the bit positions of PTEFlags
MP_R == PTE_R
MP_W == PTE_W
MP_X == PTE_X
MP_U == PTE_U

(* ------------------------------------------------------------------ *)
(* Physical memory holding page tables: a sparse word store, an absent *)
(* key reads as the all-zero entry of a cleared frame.                 *)
(* ------------------------------------------------------------------ *)
ReadPte(mem, ppn, idx) ==
    IF <<ppn, idx>> \in DOMAIN mem THEN mem[<<ppn, idx>>] ELSE 0

WritePte(mem, ppn, idx, bits) ==
    IF bits = 0
    THEN [k \in DOMAIN mem \ {<<ppn, idx>>} |-> mem[k]]
    ELSE [k \in DOMAIN mem \cup {<<ppn, idx>>} |->
            IF k = <<ppn, idx>> THEN bits ELSE mem[k]]

(* ------------------------------------------------------------------ *)
(* Frame Pool: a stack allocator over [current, end) with a recycle    *)
(* stack; a frame is handed out cleared.                               *)
(* ------------------------------------------------------------------ *)
frame_alloc(fa) ==
    IF Len(fa.recycled) > 0
    THEN [ok |-> TRUE, ppn |-> fa.recycled[Len(fa.recycled)],
          fa |-> [fa EXCEPT !.recycled = SubSeq(fa.recycled, 1, Len(fa.recycled) - 1)]]
    ELSE IF fa.current = fa.end
    THEN [ok |-> FALSE, ppn |-> 0, fa |-> fa]
    ELSE [ok |-> TRUE, ppn |-> fa.current,
          fa |-> [fa EXCEPT !.current = fa.current + 1]]

frame_dealloc(fa, ppn) == [fa EXCEPT !.recycled = Append(fa.recycled, ppn)]

(* ------------------------------------------------------------------ *)
(* The kernel state threaded through the operations below is a record  *)
(*   root_ppn, frames : the PageTable of the address space             *)
(*   areas            : the MemorySet's Vec<MapArea>                   *)
(*   mem              : page-table words in physical memory            *)
(*   fa               : the frame allocator                            *)
(*   panic            : "" or the reason the kernel aborted            *)
(* An operation applied to an aborted kernel does nothing.             *)
(* ------------------------------------------------------------------ *)
NoPanic == ""
Abort(K, why) == [K EXCEPT !.panic = why]

(* ------------------------------------------------------------------ *)
(* PageTable (page_table.rs)                                           *)
(* ------------------------------------------------------------------ *)
\* PageTable::new: one frame for the root table
PageTable_new(K) ==
    LET r == frame_alloc(K.fa)
    IN  IF ~r.ok THEN Abort(K, "oom")
        ELSE [K EXCEPT !.root_ppn = r.ppn, !.frames = <<r.ppn>>, !.fa = r.fa]

\* One intermediate level of find_pte_create: the entry at (ppn, idx) is
\* materialised with a fresh frame when it is not valid.  Returns the kernel
\* state and the ppn of the next-level table.
\* a walk that puts a fresh table under every intermediate entry, valid or not
CreateLevel_always(K, ppn, idx) ==
    LET Fresh(r) ==
            IF ~r.ok THEN [K |-> Abort(K, "oom"), ppn |-> 0]
            ELSE [K |-> [K EXCEPT
                           !.mem = WritePte(K.mem, ppn, idx,
                                            PageTableEntry_new(r.ppn, PTE_V)),
                           !.frames = Append(K.frames, r.ppn),
                           !.fa = r.fa],
                  ppn |-> r.ppn]
    IN  IF K.panic # NoPanic THEN [K |-> K, ppn |-> 0]
        ELSE Fresh(frame_alloc(K.fa))

CreateLevel(K, ppn, idx) ==
    LET Fresh(r) ==
            IF ~r.ok THEN [K |-> Abort(K, "oom"), ppn |-> 0]
            ELSE [K |-> [K EXCEPT
                           !.mem = WritePte(K.mem, ppn, idx,
                                            PageTableEntry_new(r.ppn, PTE_V)),
                           !.frames = Append(K.frames, r.ppn),
                           !.fa = r.fa],
                  ppn |-> r.ppn]
        Walk(pte) ==
            IF is_valid(pte) THEN [K |-> K, ppn |-> pte_ppn(pte)]
            ELSE Fresh(frame_alloc(K.fa))
    IN  IF K.panic # NoPanic THEN [K |-> K, ppn |-> 0]
        ELSE Walk(ReadPte(K.mem, ppn, idx))

\* PageTable::find_pte_create: the location <<ppn, idx>> of the leaf entry
find_pte_create(K, vpn) ==
    LET Leaf(l1, idx) ==
            IF l1.K.panic # NoPanic
            THEN [K |-> l1.K, some |-> FALSE, ppn |-> 0, idx |-> 0]
            ELSE [K |-> l1.K, some |-> TRUE, ppn |-> l1.ppn, idx |-> idx]
        Second(l0, idxs) == Leaf(CreateLevel(l0.K, l0.ppn, idxs[2]), idxs[3])
        First(idxs) == Second(CreateLevel(K, K.root_ppn, idxs[1]), idxs)
    IN  First(indexes(vpn))

\* PageTable::find_pte: None when an intermediate entry is not valid; the
\* third level is returned whatever its Valid bit.  `root` is the root of the
\* table walked (a view built by from_token walks the same memory).
find_pte(mem, root, vpn) ==
    LET None == [some |-> FALSE, ppn |-> 0, idx |-> 0]
        Third(p1, idxs) ==
            IF ~is_valid(p1) THEN None
            ELSE [some |-> TRUE, ppn |-> pte_ppn(p1), idx |-> idxs[3]]
        Second(p0, idxs) ==
            IF ~is_valid(p0) THEN None
            ELSE Third(ReadPte(mem, pte_ppn(p0), idxs[2]), idxs)
        First(idxs) == Second(ReadPte(mem, root, idxs[1]), idxs)
    IN  First(indexes(vpn))

\* PageTable::map
\* map without the assertion: the leaf is written whatever it holds
PageTable_map_overwriting(K, vpn, ppn, flags) ==
    LET Set(f) ==
            IF ~f.some THEN f.K
            ELSE [f.K EXCEPT !.mem = WritePte(f.K.mem, f.ppn, f.idx,
                                              PageTableEntry_new(ppn, WithV(flags)))]
    IN  IF K.panic # NoPanic THEN K ELSE Set(find_pte_create(K, vpn))

PageTable_map(K, vpn, ppn, flags) ==
    LET Set(f) ==
            IF ~f.some THEN f.K
            ELSE IF is_valid(ReadPte(f.K.mem, f.ppn, f.idx))
            THEN Abort(f.K, "mapped before mapping")
            ELSE [f.K EXCEPT !.mem = WritePte(f.K.mem, f.ppn, f.idx,
                                              PageTableEntry_new(ppn, WithV(flags)))]
    IN  IF K.panic # NoPanic THEN K ELSE Set(find_pte_create(K, vpn))

\* PageTable::unmap
PageTable_unmap_kept(K, vpn) == K
PageTable_unmap(K, vpn) ==
    LET Clear(f) ==
            IF ~f.some THEN Abort(K, "unwrap on None")
            ELSE IF ~is_valid(ReadPte(K.mem, f.ppn, f.idx))
            THEN Abort(K, "invalid before unmapping")
            ELSE [K EXCEPT !.mem = WritePte(K.mem, f.ppn, f.idx, PageTableEntry_empty)]
    IN  IF K.panic # NoPanic THEN K ELSE Clear(find_pte(K.mem, K.root_ppn, vpn))

\* PageTable::translate: Some(copy of the leaf entry) or None
PageTable_translate(mem, root, vpn) ==
    LET Copy(f) ==
            IF f.some THEN [some |-> TRUE, pte |-> ReadPte(mem, f.ppn, f.idx)]
            ELSE [some |-> FALSE, pte |-> 0]
    IN  Copy(find_pte(mem, root, vpn))

(* ------------------------------------------------------------------ *)
(* MapArea (memory_set.rs)                                             *)
(* ------------------------------------------------------------------ *)
Identical == "Identical"
Framed == "Framed"

\* SimpleRange::new asserts start <= end
MapArea_new(start_va, end_va, map_type, map_perm) ==
    [l |-> floor(start_va), r |-> ceil(end_va),
     data_frames |-> << >>, map_type |-> map_type, map_perm |-> map_perm]

\* BTreeMap insert / remove on data_frames (a function vpn -> ppn)
FramesInsert(df, vpn, ppn) ==
    [v \in DOMAIN df \cup {vpn} |-> IF v = vpn THEN ppn ELSE df[v]]
\* a remove that leaves the key in place
FramesRemove_kept(df, vpn) == df
FramesRemove(df, vpn) == [v \in DOMAIN df \ {vpn} |-> df[v]]

\* MapArea::map_one on area `a`; returns the kernel state and the area.
\* Replacing an existing key drops the old FrameTracker, which frees it.
MapArea_map_one(K, a, vpn) ==
    LET Framed1(r) ==
            IF ~r.ok THEN [K |-> Abort(K, "oom"), a |-> a, ppn |-> 0]
            ELSE [K |-> [K EXCEPT !.fa = IF vpn \in DOMAIN a.data_frames
                                         THEN frame_dealloc(r.fa, a.data_frames[vpn])
                                         ELSE r.fa],
                  a |-> [a EXCEPT !.data_frames = FramesInsert(a.data_frames, vpn, r.ppn)],
                  ppn |-> r.ppn]
        Map(x) == [K |-> PageTable_map(x.K, vpn, x.ppn, a.map_perm), a |-> x.a]
    IN  IF K.panic # NoPanic THEN [K |-> K, a |-> a]
        ELSE IF a.map_type = Identical THEN Map([K |-> K, a |-> a, ppn |-> vpn])
        ELSE Map(Framed1(frame_alloc(K.fa)))

\* MapArea::unmap_one
\* unmap_one that drops the frame-map entry without releasing the frame
MapArea_unmap_one_leaking(K, a, vpn) ==
    LET Owned == a.map_type = Framed /\ vpn \in DOMAIN a.data_frames
        Unmap(x) == [K |-> PageTable_unmap(x.K, vpn), a |-> x.a]
    IN  IF K.panic # NoPanic THEN [K |-> K, a |-> a]
        ELSE IF Owned
        THEN Unmap([K |-> K,
                    a |-> [a EXCEPT !.data_frames = FramesRemove(a.data_frames, vpn)]])
        ELSE Unmap([K |-> K, a |-> a])

MapArea_unmap_one(K, a, vpn) ==
    LET Owned == a.map_type = Framed /\ vpn \in DOMAIN a.data_frames
        Unmap(x) == [K |-> PageTable_unmap(x.K, vpn), a |-> x.a]
    IN  IF K.panic # NoPanic THEN [K |-> K, a |-> a]
        ELSE IF Owned
        THEN Unmap([K |-> [K EXCEPT !.fa = frame_dealloc(K.fa, a.data_frames[vpn])],
                    a |-> [a EXCEPT !.data_frames = FramesRemove(a.data_frames, vpn)]])
        ELSE Unmap([K |-> K, a |-> a])

\* `for vpn in lo..hi-1 { map_one }` on the pair s = [K, a]
RECURSIVE MapRange(_, _, _)
MapRange(s, lo, hi) ==
    IF lo >= hi \/ s.K.panic # NoPanic THEN s
    ELSE MapRange(MapArea_map_one(s.K, s.a, lo), lo + 1, hi)

\* `for vpn in lo..hi-1 { unmap_one }` on the pair s = [K, a]
RECURSIVE UnmapRange(_, _, _)
UnmapRange(s, lo, hi) ==
    IF lo >= hi \/ s.K.panic # NoPanic THEN s
    ELSE UnmapRange(MapArea_unmap_one(s.K, s.a, lo), lo + 1, hi)

\* MapArea::map
MapArea_map(K, a) == MapRange([K |-> K, a |-> a], a.l, a.r)

\* MapArea::shrink_to; VPNRange::new(new_end, end) and
\* VPNRange::new(start, new_end) assert start <= end
MapArea_shrink_to(K, a, new_end) ==
    LET SetEnd(s) ==
            IF s.K.panic # NoPanic THEN s
            ELSE IF a.l > new_end
            THEN [K |-> Abort(s.K, "range start > end"), a |-> s.a]
            ELSE [K |-> s.K, a |-> [s.a EXCEPT !.r = new_end]]
    IN  IF K.panic # NoPanic THEN [K |-> K, a |-> a]
        ELSE IF new_end > a.r THEN [K |-> Abort(K, "range start > end"), a |-> a]
        ELSE SetEnd(UnmapRange([K |-> K, a |-> a], new_end, a.r))

\* MapArea::append_to; VPNRange::new(end, new_end) asserts end <= new_end
MapArea_append_to(K, a, new_end) ==
    LET SetEnd(s) ==
            IF s.K.panic # NoPanic THEN s
            ELSE [K |-> s.K, a |-> [s.a EXCEPT !.r = new_end]]
    IN  IF K.panic # NoPanic THEN [K |-> K, a |-> a]
        ELSE IF a.r > new_end THEN [K |-> Abort(K, "range start > end"), a |-> a]
        ELSE SetEnd(MapRange([K |-> K, a |-> a], a.r, new_end))

\* MapArea::copy_data: the pages the copy loop looks up, one per PAGE_SIZE
\* bytes of data and at least one; translate(..).unwrap() aborts on None.
RECURSIVE copy_data(_, _, _, _)
copy_data(K, vpn, start, len) ==
    IF K.panic # NoPanic THEN K
    ELSE IF ~PageTable_translate(K.mem, K.root_ppn, vpn).some
    THEN Abort(K, "unwrap on None")
    ELSE IF start + PAGE_SIZE >= len THEN K
    ELSE copy_data(K, vpn + 1, start + PAGE_SIZE, len)

(* ------------------------------------------------------------------ *)
(* MemorySet (memory_set.rs)                                           *)
(* ------------------------------------------------------------------ *)
\* MemorySet::new_bare
MemorySet_new_bare(fa) ==
    PageTable_new([root_ppn |-> 0, frames |-> << >>, areas |-> << >>,
                   mem |-> << >>, fa |-> fa, panic |-> NoPanic])

\* MemorySet::push: map the area, copy the data if any (data_len < 0: None),
\* then keep the area in the list
MemorySet_push(K, a, data_len) ==
    LET Keep(s) ==
            IF s.K.panic # NoPanic THEN s.K
            ELSE [s.K EXCEPT !.areas = Append(s.K.areas, s.a)]
        Copy(s) ==
            IF data_len >= 0
            THEN [K |-> copy_data(s.K, a.l, 0, data_len), a |-> s.a]
            ELSE s
    IN  IF K.panic # NoPanic THEN K
        ELSE IF a.l > a.r THEN Abort(K, "range start > end")
        ELSE Keep(Copy(MapArea_map(K, a)))

\* MemorySet::insert_framed_area
MemorySet_insert_framed_area(K, start_va, end_va, permission) ==
    MemorySet_push(K, MapArea_new(start_va, end_va, Framed, permission), -1)

\* MemorySet::map_trampoline: the trampoline page is mapped in the page
\* table only, it belongs to no area
\* the trampoline mapped writable as well
MemorySet_map_trampoline_writable(K, strampoline) ==
    PageTable_map(K, floor(VirtAddr_from(TRAMPOLINE)), floor(strampoline),
                  PTE_R + PTE_W + PTE_X)

MemorySet_map_trampoline(K, strampoline) ==
    PageTable_map(K, floor(VirtAddr_from(TRAMPOLINE)), floor(strampoline),
                  PTE_R + PTE_X)

\* a .text area left writable
TextPermission_writable == MP_R + MP_W + MP_X

\* the permission of the .text area
TextPermission == MP_R + MP_X

\* MemorySet::new_kernel over the linker's section bounds `ld`
MemorySet_new_kernel(fa, ld) ==
    MemorySet_push(
      MemorySet_push(
        MemorySet_push(
          MemorySet_push(
            MemorySet_push(
              MemorySet_map_trampoline(MemorySet_new_bare(fa), ld.strampoline),
              MapArea_new(ld.stext, ld.etext, Identical, TextPermission), -1),
            MapArea_new(ld.srodata, ld.erodata, Identical, MP_R), -1),
          MapArea_new(ld.sdata, ld.edata, Identical, MP_R + MP_W), -1),
        MapArea_new(ld.sbss_with_stack, ld.ebss, Identical, MP_R + MP_W), -1),
      MapArea_new(ld.ekernel, MEMORY_END, Identical, MP_R + MP_W), -1)

\* a mistyped magic
ELF_MAGIC_mistyped == <<127, 69, 76, 0>>

\* `[0x7f, 0x45, 0x4c, 0x46]`
ELF_MAGIC == <<127, 69, 76, 70>>

\* The program-header loop of from_elf on s = [K, max_end_vpn]: each Load
\* segment becomes a Framed area with U and the segment's R/W/X; max_end_vpn
\* is the end of the segment pushed last.
RECURSIVE LoadSegments(_, _, _)
LoadSegments(s, phs, i) ==
    LET Perm(ph) == MP_U + (IF ph.r THEN MP_R ELSE 0)
                         + (IF ph.w THEN MP_W ELSE 0)
                         + (IF ph.x THEN MP_X ELSE 0)
        Push(a, ph) == [K |-> MemorySet_push(s.K, a, ph.file_size), max_end_vpn |-> a.r]
        Load(ph) ==
            IF ph.type # "Load" THEN s
            ELSE Push(MapArea_new(VirtAddr_from(ph.vaddr),
                                  VirtAddr_from(ph.vaddr + ph.mem_size),
                                  Framed, Perm(ph)), ph)
    IN  IF s.K.panic # NoPanic \/ i > Len(phs) THEN s
        ELSE LoadSegments(Load(phs[i]), phs, i + 1)

\* MemorySet::from_elf: returns the kernel state, user_stack_top and the entry
MemorySet_from_elf(fa, strampoline, elf) ==
    LET StackAbove(K, user_stack_bottom, user_stack_top) ==
            [K |-> MemorySet_push(
                     MemorySet_push(
                       MemorySet_push(K,
                         MapArea_new(VirtAddr_from(user_stack_bottom),
                                     VirtAddr_from(user_stack_top), Framed,
                                     MP_R + MP_W + MP_U), -1),
                       MapArea_new(VirtAddr_from(user_stack_top),
                                   VirtAddr_from(user_stack_top), Framed,
                                   MP_R + MP_W + MP_U), -1),
                     MapArea_new(VirtAddr_from(TRAP_CONTEXT_BASE),
                                 VirtAddr_from(TRAMPOLINE), Framed,
                                 MP_R + MP_W), -1),
             user_sp |-> user_stack_top, entry |-> elf.entry]
        Stack(K, user_stack_bottom) ==
            StackAbove(K, user_stack_bottom, user_stack_bottom + USER_STACK_SIZE)
        Rest(s) ==
            Stack(s.K, usize_from_VirtAddr(VirtAddr_from_vpn(s.max_end_vpn)) + PAGE_SIZE)
        Parse(K0) ==
            IF K0.panic # NoPanic THEN [K |-> K0, user_sp |-> 0, entry |-> 0]
            ELSE IF elf.magic # ELF_MAGIC
            THEN [K |-> Abort(K0, "invalid elf!"), user_sp |-> 0, entry |-> 0]
            ELSE Rest(LoadSegments([K |-> K0, max_end_vpn |-> 0], elf.phs, 1))
    IN  Parse(MemorySet_map_trampoline(MemorySet_new_bare(fa), strampoline))

\* MemorySet::translate
MemorySet_translate(K, vpn) == PageTable_translate(K.mem, K.root_ppn, vpn)

\* `areas.iter_mut().find(|area| area.vpn_range.get_start() == vpn)`:
\* the index of the first such area, 0 when there is none
\* the search taking the last region that starts at the page
FindAreaByStart_last(areas, vpn) ==
    LET hits == {i \in 1..Len(areas) : areas[i].l = vpn}
    IN  IF hits = {} THEN 0 ELSE CHOOSE i \in hits : \A j \in hits : i >= j

FindAreaByStart(areas, vpn) ==
    LET hits == {i \in 1..Len(areas) : areas[i].l = vpn}
    IN  IF hits = {} THEN 0 ELSE CHOOSE i \in hits : \A j \in hits : i <= j

\* MemorySet::shrink_to
MemorySet_shrink_to(K, start, new_end) ==
    LET Put(s, i) == [K |-> [s.K EXCEPT !.areas[i] = s.a], ret |-> TRUE]
        On(i) ==
            IF i = 0 THEN [K |-> K, ret |-> FALSE]
            ELSE Put(MapArea_shrink_to(K, K.areas[i], ceil(new_end)), i)
    IN  On(FindAreaByStart(K.areas, floor(start)))

\* MemorySet::append_to
MemorySet_append_to(K, start, new_end) ==
    LET Put(s, i) == [K |-> [s.K EXCEPT !.areas[i] = s.a], ret |-> TRUE]
        On(i) ==
            IF i = 0 THEN [K |-> K, ret |-> FALSE]
            ELSE Put(MapArea_append_to(K, K.areas[i], ceil(new_end)), i)
    IN  On(FindAreaByStart(K.areas, floor(start)))

\* `area.data_frames.get(&vpn).is_some()` for some area
\* the ownership test on the regions' declared ranges
OwnedBySomeArea_declared(areas, vpn) ==
    \E i \in 1..Len(areas) : areas[i].l <= vpn /\ vpn < areas[i].r

\* the ownership test looking at the first region only
OwnedBySomeArea_first(areas, vpn) ==
    Len(areas) >= 1 /\ vpn \in DOMAIN areas[1].data_frames
OwnedBySomeArea(areas, vpn) ==
    \E i \in 1..Len(areas) : vpn \in DOMAIN areas[i].data_frames

\* a length taken as given
ClampLen_asGiven(len) == len

\* the clamped length of mmap and munmap
ClampLen(len) == IF len < 4096 THEN 4096 ELSE len

\* the argument checks without the test for an empty permission
MmapBadArgs_emptyAllowed(start_va, port) ==
    \/ page_offset(start_va) # 0
    \/ port \div 8 # 0

\* the argument checks of mmap: start not page-aligned, `port & !0x7 != 0`,
\* `port & 0x7 == 0`
MmapBadArgs(start_va, port) ==
    \/ page_offset(start_va) # 0
    \/ port \div 8 # 0
    \/ port % 8 = 0

\* the permission that ignores port
MmapPermission_readonly(port) == MP_R + MP_U

\* the permission without the shift that lines port up with R, W, X
MmapPermission_unshifted(port) == port + MP_U

\* `MapPermission::from_bits((port as u8) << 1)` with U set
MmapPermission(port) == port * 2 + MP_U

\* MemorySet::mmap: returns the kernel state and the status
MemorySet_mmap(K, start, len, port) ==
    LET Checked(start_va, start_vpn, end_vpn) ==
            IF MmapBadArgs(start_va, port) THEN [K |-> K, ret |-> -1]
            ELSE IF \E vpn \in start_vpn..(end_vpn - 1) : OwnedBySomeArea(K.areas, vpn)
            THEN [K |-> K, ret |-> -1]
            ELSE [K |-> MemorySet_insert_framed_area(K, start_va,
                           VirtAddr_from_vpn(end_vpn), MmapPermission(port)),
                  ret |-> 0]
        Range(start_va, end) == Checked(start_va, floor(start_va), ceil(VirtAddr_from(end)))
    IN  Range(VirtAddr_from(start), (start + ClampLen(len)) % USIZE_MOD)

\* the first area whose data_frames holds vpn, 0 when there is none
\* a search that never finds an owner
FirstOwner_none(areas, vpn) == 0
FirstOwner(areas, vpn) ==
    LET hits == {i \in 1..Len(areas) : vpn \in DOMAIN areas[i].data_frames}
    IN  IF hits = {} THEN 0 ELSE CHOOSE i \in hits : \A j \in hits : i <= j

\* the page loop of munmap over [vpn, end_vpn)
RECURSIVE MunmapLoop(_, _, _)
MunmapLoop(K, vpn, end_vpn) ==
    LET Put(s, i) == [s.K EXCEPT !.areas[i] = s.a]
        On(i) ==
            IF i = 0 THEN [K |-> K, ret |-> -1]
            ELSE MunmapLoop(Put(MapArea_unmap_one(K, K.areas[i], vpn), i),
                            vpn + 1, end_vpn)
    IN  IF K.panic # NoPanic THEN [K |-> K, ret |-> -1]
        ELSE IF vpn >= end_vpn THEN [K |-> K, ret |-> 0]
        ELSE On(FirstOwner(K.areas, vpn))

\* MemorySet::munmap
MemorySet_munmap(K, start, len) ==
    MunmapLoop(K, floor(VirtAddr_from(start)),
               ceil(VirtAddr_from((start + ClampLen(len)) % USIZE_MOD)))

(* ------------------------------------------------------------------ *)
(* Token and cross-space copy (page_table.rs)                          *)
(* ------------------------------------------------------------------ *)
\* PageTable::token: 8 << (width - 4) | root_ppn
PageTable_token(root_ppn) ==
    LET top == 2 ^ (USIZE_WIDTH - 4)
        hi == root_ppn \div top
        lo == root_ppn % top
    IN  (IF HasBit(hi, 8) THEN hi ELSE hi + 8) * top + lo

\* a from_token that keeps the mode bits in the root number
PageTable_from_token_unmasked(satp) == satp

\* PageTable::from_token: the root of the non-owning view (its frames: none)
PageTable_from_token(satp) == satp % PPN_MOD

\* The loop of translated_byte_buffer from `start` to `end`: the views
\* gathered so far are `v`, each [ppn, lo, hi) within one physical page.
\* some = FALSE: translate(..).unwrap() met None.
\* the end of a view taken as the offset of end_va even at a page boundary
ViewEnd_offset(end_va) == page_offset(end_va)

\* the end of a view: the whole rest of the page when end_va is page-aligned
ViewEnd(end_va) ==
    IF page_offset(end_va) = 0 THEN PAGE_SIZE ELSE page_offset(end_va)

RECURSIVE ByteBufferLoop(_, _, _, _, _)
ByteBufferLoop(mem, root, start, end, v) ==
    LET Push(t, start_va, end_va) ==
            IF ~t.some THEN [some |-> FALSE, v |-> v]
            ELSE ByteBufferLoop(mem, root, usize_from_VirtAddr(end_va), end,
                    Append(v, [ppn |-> pte_ppn(t.pte),
                               lo |-> page_offset(start_va),
                               hi |-> ViewEnd(end_va)]))
        Page(start_va, vpn) ==
            Push(PageTable_translate(mem, root, vpn), start_va,
                 Min(VirtAddr_from_vpn(vpn + 1), VirtAddr_from(end)))
        At(start_va) == Page(start_va, floor(start_va))
    IN  IF ~(start < end) THEN [some |-> TRUE, v |-> v]
        ELSE At(VirtAddr_from(start))

\* translated_byte_buffer
\* a view that takes the root table as a frame of its own
PageTable_from_token_frames_root(satp) == << satp % PPN_MOD >>

\* `frames: Vec::new()` of the page table built by PageTable::from_token
PageTable_from_token_frames(satp) == << >>

\* a Vec<FrameTracker> going out of scope: every frame goes back to the pool
RECURSIVE DropFrames(_, _)
DropFrames(fa, frames) ==
    IF frames = << >> THEN fa
    ELSE DropFrames(frame_dealloc(fa, Head(frames)), Tail(frames))

translated_byte_buffer(mem, token, ptr, len) ==
    ByteBufferLoop(mem, PageTable_from_token(token), ptr, ptr + len, << >>)

(* ------------------------------------------------------------------ *)
(* Syscalls marshalling a record through the views (process.rs)       *)
(* ------------------------------------------------------------------ *)
SIZEOF_TimeVal == 16
SIZEOF_TaskInfo == 2016

\* a copy that does not advance the source pointer between the views
RECURSIVE CopyRecord_stuck(_, _, _)
CopyRecord_stuck(buffers, i, src) ==
    IF i > Len(buffers) THEN << >>
    ELSE << [ppn |-> buffers[i].ppn, lo |-> buffers[i].lo, hi |-> buffers[i].hi,
             src |-> src] >>
         \o CopyRecord_stuck(buffers, i + 1, src)

\* `for buffer in buffers { ptr.copy_to(buffer, buffer.len()); ptr = ptr.add(..) }`:
\* each write is [ppn, lo, hi) <- record bytes [src, src + hi - lo)
RECURSIVE CopyRecord(_, _, _)
CopyRecord(buffers, i, src) ==
    IF i > Len(buffers) THEN << >>
    ELSE << [ppn |-> buffers[i].ppn, lo |-> buffers[i].lo, hi |-> buffers[i].hi,
             src |-> src] >>
         \o CopyRecord(buffers, i + 1, src + (buffers[i].hi - buffers[i].lo))

(* ------------------------------------------------------------------ *)
(* State                                                               *)
(* ------------------------------------------------------------------ *)
VARIABLES
    kind,             \* "boot", "user" (built by from_elf) or "kernel" (new_kernel)
    page_table,       \* PageTable { root_ppn, frames }
    areas,            \* MemorySet.areas
    mem,              \* page-table words in physical memory
    frame_allocator,  \* FRAME_ALLOCATOR { current, end, recycled }
    panic,            \* "" or the panic message of the aborted kernel
    built_from,       \* the image given to from_elf, the layout given to new_kernel
    user_sp,          \* user_stack_top returned by from_elf
    last,             \* the last operation and its arguments
    ret,              \* its return value
    views,            \* the views returned by translated_byte_buffer
    written,          \* the writes of the last sys_get_time / sys_task_info
    nops              \* operations run on the address space

vars == << kind, page_table, areas, mem, frame_allocator, panic, built_from, user_sp,
           last, ret, views, written, nops >>

\* the kernel-state record of the current state
Kernel ==
    [root_ppn |-> page_table.root_ppn, frames |-> page_table.frames,
     areas |-> areas, mem |-> mem, fa |-> frame_allocator, panic |-> panic]

\* the next state holds the kernel-state record K
Commit(K) ==
    /\ page_table' = [root_ppn |-> K.root_ppn, frames |-> K.frames]
    /\ areas' = K.areas
    /\ mem' = K.mem
    /\ frame_allocator' = K.fa
    /\ panic' = K.panic

NoOp == [op |-> "none", start |-> 0, len |-> 0, port |-> 0]

(* ------------------------------------------------------------------ *)
(* Inputs                                                              *)
(* ------------------------------------------------------------------ *)
\* the frame allocator as init_frame_allocator leaves it, and after other
\* tasks have taken and returned frames
AllocInits ==
    { [current |-> FrameBase, end |-> FrameBase + NFrames, recycled |-> << >>],
      [current |-> FrameBase + 6, end |-> FrameBase + NFrames,
       recycled |-> << FrameBase + 4, FrameBase + 1 >>] }

\* linker symbols of the kernel image: six pages below ekernel
KernelBase == (FrameBase - 6) * PAGE_SIZE
Layouts ==
    { [stext |-> KernelBase, strampoline |-> KernelBase + PAGE_SIZE,
       etext |-> KernelBase + 2 * PAGE_SIZE,
       srodata |-> KernelBase + 2 * PAGE_SIZE, erodata |-> KernelBase + 3 * PAGE_SIZE,
       sdata |-> KernelBase + 3 * PAGE_SIZE, edata |-> KernelBase + 4 * PAGE_SIZE,
       sbss_with_stack |-> KernelBase + 4 * PAGE_SIZE,
       ebss |-> KernelBase + 6 * PAGE_SIZE, ekernel |-> KernelBase + 6 * PAGE_SIZE],
      [stext |-> KernelBase, strampoline |-> KernelBase + PAGE_SIZE,
       etext |-> KernelBase + 3 * PAGE_SIZE,
       srodata |-> KernelBase + 3 * PAGE_SIZE, erodata |-> KernelBase + 3 * PAGE_SIZE + 256,
       sdata |-> KernelBase + 4 * PAGE_SIZE, edata |-> KernelBase + 4 * PAGE_SIZE + 512,
       sbss_with_stack |-> KernelBase + 5 * PAGE_SIZE,
       ebss |-> KernelBase + 6 * PAGE_SIZE, ekernel |-> KernelBase + 6 * PAGE_SIZE] }
Strampoline == KernelBase + PAGE_SIZE

\* executable images
UserBase == 4 * PAGE_SIZE
Seg(type, vaddr, mem_size, file_size, r, w, x) ==
    [type |-> type, vaddr |-> vaddr, mem_size |-> mem_size, file_size |-> file_size,
     r |-> r, w |-> w, x |-> x]
Images ==
    { \* text and data in ascending order, one header that is not loadable
      [magic |-> <<127, 69, 76, 70>>, entry |-> UserBase,
       phs |-> << Seg("Load", UserBase, PAGE_SIZE + 2048, PAGE_SIZE + 2048, TRUE, FALSE, TRUE),
                  Seg("Note", 0, 0, 0, TRUE, FALSE, FALSE),
                  Seg("Load", UserBase + 2 * PAGE_SIZE, 2048, 1024, TRUE, TRUE, FALSE) >>],
      \* the higher segment comes first in the header table
      [magic |-> <<127, 69, 76, 70>>, entry |-> UserBase,
       phs |-> << Seg("Load", UserBase + 2 * PAGE_SIZE, 2048, 1024, TRUE, TRUE, FALSE),
                  Seg("Load", UserBase, PAGE_SIZE, PAGE_SIZE, TRUE, FALSE, TRUE) >>],
      \* not an ELF file
      [magic |-> <<127, 69, 76, 0>>, entry |-> UserBase,
       phs |-> << Seg("Load", UserBase, 256, 256, TRUE, TRUE, TRUE) >>] }

\* The addresses the operations are called on.  H is the first free page
\* above the user stack (the heap bottom) of a user space and a page below the
\* kernel image in the kernel space; Far lies under other page-table indices.
H == IF kind = "user" THEN user_sp ELSE 4 * PAGE_SIZE
Far == 16 * PAGE_SIZE
\* the top page of the address space, written without its sign-extension
TopPage == VA_MOD - PAGE_SIZE

MmapArgs ==
    IF kind = "kernel"
    THEN { <<H, PAGE_SIZE, 3>>, <<H, PAGE_SIZE, 0>>, <<KernelBase, PAGE_SIZE, 1>> }
    ELSE ({H, H + PAGE_SIZE} \X {1, PAGE_SIZE + 1} \X {3})
         \cup ({H} \X {PAGE_SIZE + 1} \X {5})
         \cup ({H} \X {PAGE_SIZE} \X {0, 1, 6, 8})
         \cup { <<H + 1, PAGE_SIZE, 3>>, <<H, 0, 3>>,
                <<Far, 2 * PAGE_SIZE, 6>>,
                <<H - PAGE_SIZE, 2 * PAGE_SIZE, 3>>,
                <<TRAP_CONTEXT_BASE, PAGE_SIZE, 3>>,
                <<TopPage, VA_MOD + 1, 1>> }

MunmapArgs ==
    IF kind = "kernel"
    THEN { <<H, PAGE_SIZE>>, <<KernelBase, PAGE_SIZE>> }
    ELSE ({H, H + PAGE_SIZE} \X {1, PAGE_SIZE + 1})
         \cup { <<H, 0>>, <<H, 3 * PAGE_SIZE>>, <<Far, 2 * PAGE_SIZE>>,
                <<H - PAGE_SIZE, PAGE_SIZE>>, <<TRAP_CONTEXT_BASE, PAGE_SIZE>>,
                <<TopPage, VA_MOD + 1>> }

ShrinkArgs ==
    IF kind = "kernel" THEN {}
    ELSE { <<H, H>>, <<H, H + PAGE_SIZE>>, <<H + PAGE_SIZE, H + PAGE_SIZE>>,
           \* the user stack region, shrunk to its first page
           <<H - USER_STACK_SIZE, H - PAGE_SIZE>> }

AppendArgs ==
    IF kind = "kernel" THEN {}
    ELSE { <<H, H + PAGE_SIZE>>, <<H, H + 2 * PAGE_SIZE>>,
           <<H + PAGE_SIZE, H + 2 * PAGE_SIZE>> }

BufferArgs ==
    IF kind = "kernel" THEN {}
    ELSE { <<H + 100, 50>>, <<H + PAGE_SIZE - 8, 16>>, <<H, 2 * PAGE_SIZE>>,
           <<H - PAGE_SIZE + 1, 2 * PAGE_SIZE>>, <<Far, 16>> }

RecordPtrs == IF kind = "kernel" THEN {} ELSE { H + 64, H + PAGE_SIZE - 8 }

(* ------------------------------------------------------------------ *)
(* Initial state and actions                                           *)
(* ------------------------------------------------------------------ *)
Init ==
    /\ kind = "boot"
    /\ page_table = [root_ppn |-> 0, frames |-> << >>]
    /\ areas = << >>
    /\ mem = << >>
    /\ frame_allocator \in AllocInits
    /\ panic = NoPanic
    /\ built_from = << >>
    /\ user_sp = 0
    /\ last = NoOp
    /\ ret = 0
    /\ views = << >>
    /\ written = << >>
    /\ nops = 0

\* KERNEL_SPACE is built by new_kernel before any frame has been handed out
NewKernel(ld) ==
    /\ kind = "boot"
    /\ frame_allocator.current = FrameBase /\ frame_allocator.recycled = << >>
    /\ Commit(MemorySet_new_kernel(frame_allocator, ld))
    /\ kind' = "kernel"
    /\ built_from' = ld
    /\ last' = [NoOp EXCEPT !.op = "new_kernel"]
    /\ UNCHANGED << user_sp, ret, views, written, nops >>

\* a task's address space is built by from_elf
FromElf(elf) ==
    /\ kind = "boot"
    /\ LET Built(r) == Commit(r.K) /\ user_sp' = r.user_sp
       IN  Built(MemorySet_from_elf(frame_allocator, Strampoline, elf))
    /\ kind' = "user"
    /\ built_from' = elf
    /\ last' = [NoOp EXCEPT !.op = "from_elf"]
    /\ UNCHANGED << ret, views, written, nops >>

Running == kind # "boot" /\ panic = NoPanic /\ nops < MaxOps

Mmap(start, len, port) ==
    /\ Running
    /\ LET Done(r) == Commit(r.K) /\ ret' = IF r.K.panic # NoPanic THEN ret ELSE r.ret
       IN  Done(MemorySet_mmap(Kernel, start, len, port))
    /\ last' = [op |-> "mmap", start |-> start, len |-> len, port |-> port]
    /\ nops' = nops + 1
    /\ UNCHANGED << kind, built_from, user_sp, views, written >>

Munmap(start, len) ==
    /\ Running
    /\ LET Done(r) == Commit(r.K) /\ ret' = IF r.K.panic # NoPanic THEN ret ELSE r.ret
       IN  Done(MemorySet_munmap(Kernel, start, len))
    /\ last' = [op |-> "munmap", start |-> start, len |-> len, port |-> 0]
    /\ nops' = nops + 1
    /\ UNCHANGED << kind, built_from, user_sp, views, written >>

\* shrink_to and append_to return a bool: ret is 1 for true, 0 for false
ShrinkTo(start, new_end) ==
    /\ Running
    /\ LET Done(r) == Commit(r.K) /\ ret' = IF r.K.panic # NoPanic THEN ret
                                         ELSE IF r.ret THEN 1 ELSE 0
       IN  Done(MemorySet_shrink_to(Kernel, start, new_end))
    /\ last' = [op |-> "shrink_to", start |-> start, len |-> new_end, port |-> 0]
    /\ nops' = nops + 1
    /\ UNCHANGED << kind, built_from, user_sp, views, written >>

AppendTo(start, new_end) ==
    /\ Running
    /\ LET Done(r) == Commit(r.K) /\ ret' = IF r.K.panic # NoPanic THEN ret
                                         ELSE IF r.ret THEN 1 ELSE 0
       IN  Done(MemorySet_append_to(Kernel, start, new_end))
    /\ last' = [op |-> "append_to", start |-> start, len |-> new_end, port |-> 0]
    /\ nops' = nops + 1
    /\ UNCHANGED << kind, built_from, user_sp, views, written >>

\* the pool after the page table that translated_byte_buffer built from the
\* token has gone out of scope
ViewDropped ==
    DropFrames(frame_allocator,
               PageTable_from_token_frames(PageTable_token(page_table.root_ppn)))

\* translated_byte_buffer on the token of the address space
TranslatedByteBuffer(ptr, len) ==
    /\ Running
    /\ LET Done(r) ==
               /\ views' = r.v
               /\ panic' = IF r.some THEN panic ELSE "unwrap on None"
               /\ frame_allocator' = IF r.some THEN ViewDropped ELSE frame_allocator
       IN  Done(translated_byte_buffer(mem, PageTable_token(page_table.root_ppn), ptr, len))
    /\ last' = [op |-> "translated_byte_buffer", start |-> ptr, len |-> len, port |-> 0]
    /\ nops' = nops + 1
    /\ UNCHANGED << kind, built_from, page_table, areas, mem, user_sp, ret, written >>

\* sys_get_time / sys_task_info: the record of `size` bytes is copied through
\* the views of the user buffer
SysRecord(name, ptr, size) ==
    /\ Running
    /\ LET Done(r) ==
               /\ views' = r.v
               /\ panic' = IF r.some THEN panic ELSE "unwrap on None"
               /\ written' = IF r.some THEN CopyRecord(r.v, 1, 0) ELSE << >>
               /\ ret' = IF r.some THEN 0 ELSE ret
               /\ frame_allocator' = IF r.some THEN ViewDropped ELSE frame_allocator
       IN  Done(translated_byte_buffer(mem, PageTable_token(page_table.root_ppn), ptr, size))
    /\ last' = [op |-> name, start |-> ptr, len |-> size, port |-> 0]
    /\ nops' = nops + 1
    /\ UNCHANGED << kind, built_from, page_table, areas, mem, user_sp >>

SysGetTime(ts) == SysRecord("sys_get_time", ts, SIZEOF_TimeVal)
SysTaskInfo(ti) == SysRecord("sys_task_info", ti, SIZEOF_TaskInfo)

Next ==
    \/ \E ld \in Layouts : NewKernel(ld)
    \/ \E elf \in Images : FromElf(elf)
    \/ \E a \in MmapArgs : Mmap(a[1], a[2], a[3])
    \/ \E a \in MunmapArgs : Munmap(a[1], a[2])
    \/ \E a \in ShrinkArgs : ShrinkTo(a[1], a[2])
    \/ \E a \in AppendArgs : AppendTo(a[1], a[2])
    \/ \E a \in BufferArgs : TranslatedByteBuffer(a[1], a[2])
    \/ \E ts \in RecordPtrs : SysGetTime(ts)
    \/ \E ti \in RecordPtrs : SysTaskInfo(ti)

Spec == Init /\ [][Next]_vars

(* ------------------------------------------------------------------ *)
(* Observations of a state                                             *)
(* ------------------------------------------------------------------ *)
\* the leaf entry a lookup of vpn ends in, 0 where the walk stops early
LeafIn(m, root, vpn) ==
    LET At(t) == IF t.some THEN t.pte ELSE 0
    IN  At(PageTable_translate(m, root, vpn))
Leaf(vpn) == LeafIn(mem, page_table.root_ppn, vpn)
ValidLeaf(vpn) == is_valid(Leaf(vpn))

\* every virtual page number
AllVpns == 0..(VPN_MOD - 1)

\* the page range [start, start + max(len, 4096)) of mmap and munmap, as
\* virtual page numbers
PagesOf(start, len) ==
    floor(VirtAddr_from(start))
      .. (ceil(VirtAddr_from((start + Max(len, 4096)) % USIZE_MOD)) - 1)

\* the frames the regions of `as` own for vpn
OwnedFrames(as, vpn) ==
    { as[i].data_frames[vpn] :
        i \in { j \in 1..Len(as) : vpn \in DOMAIN as[j].data_frames } }

\* the last operation was `op` and it returned (the kernel did not abort)
Returned(op) == last.op = op /\ panic = NoPanic

(* ------------------------------------------------------------------ *)
(* Properties                                                          *)
(* ------------------------------------------------------------------ *)
\* C1: when mmap(start, len, port) with a page-aligned start, len >= 1 and
\* port in 1..7 has returned 0, every page of [start, start + max(len, 4096))
\* has a valid leaf entry whose R, W, X bits are bits 0, 1, 2 of port, whose
\* U bit is set, and whose frame is the one the newly inserted Framed region
\* (the last of the region list) owns for that page.
C1_MmapEstablishes ==
    (Returned("mmap") /\ ret = 0 /\ last.len >= 1)
    => /\ last.start % PAGE_SIZE = 0
       /\ last.port \in 1..7
       /\ Len(areas) >= 1
       /\ areas[Len(areas)].map_type = Framed
       /\ \A vpn \in PagesOf(last.start, last.len) :
            /\ ValidLeaf(vpn)
            /\ readable(Leaf(vpn)) = HasBit(last.port, 1)
            /\ writable(Leaf(vpn)) = HasBit(last.port, 2)
            /\ executable(Leaf(vpn)) = HasBit(last.port, 4)
            /\ HasBit(pte_flags(Leaf(vpn)), PTE_U)
            /\ vpn \in DOMAIN areas[Len(areas)].data_frames
            /\ pte_ppn(Leaf(vpn)) = areas[Len(areas)].data_frames[vpn]
            /\ OwnedFrames(areas, vpn) = { pte_ppn(Leaf(vpn)) }

\* a two-page mapping with a read-and-execute port has been established
C1_Witness ==
    /\ Returned("mmap") /\ ret = 0
    /\ last.len = PAGE_SIZE + 1
    /\ last.port = 5
    /\ Cardinality(PagesOf(last.start, last.len)) = 2

\* the step is a call of `op` (the kernel was running and counted the call)
Step(op) == nops' = nops + 1 /\ last'.op = op

\* the regions added by mmap: those pushed after the trap-context region
MmapAreas ==
    { i \in 1..Len(areas) :
        \E j \in 1..(i - 1) : areas[j].l = floor(VirtAddr_from(TRAP_CONTEXT_BASE)) }

\* C2: when mmap(start, len, port) has returned 0, an immediately following
\* munmap(start, len) over the identical range returns 0 too, and afterwards
\* no page of the range has a valid leaf entry and no region owns a frame
\* for it.
C2_MmapThenMunmap ==
    [][ ( /\ Returned("mmap") /\ ret = 0
          /\ Step("munmap")
          /\ last'.start = last.start /\ last'.len = last.len )
        => /\ panic' = NoPanic
           /\ ret' = 0
           /\ \A vpn \in PagesOf(last.start, last.len) :
                /\ ~is_valid(LeafIn(mem', page_table'.root_ppn, vpn))
                /\ OwnedFrames(areas', vpn) = {} ]_vars

\* a two-page mapping made by mmap has been removed again by munmap: its
\* region is still listed, with an empty frame map
C2_Witness ==
    /\ Returned("munmap") /\ ret = 0 /\ nops = 2
    /\ Cardinality(PagesOf(last.start, last.len)) = 2
    /\ \E i \in MmapAreas :
         /\ areas[i].l .. (areas[i].r - 1) = PagesOf(last.start, last.len)
         /\ DOMAIN areas[i].data_frames = {}
    /\ \A vpn \in PagesOf(last.start, last.len) : ~ValidLeaf(vpn)

FirstUnowned(as, pages) ==
    CHOOSE vpn \in pages :
        /\ OwnedFrames(as, vpn) = {}
        /\ \A w \in pages : OwnedFrames(as, w) = {} => vpn <= w

\* the indices of the valid entries of the table page ppn
ValidIdx(m, ppn) == { i \in 0..(NIdx - 1) : is_valid(ReadPte(m, ppn, i)) }

\* the pages with a valid leaf entry: those reached from the root through
\* valid entries of the three levels
MappedPages(m, root) ==
    LET Level3(p2, i0, i1) == { (i0 * NIdx + i1) * NIdx + i2 : i2 \in ValidIdx(m, p2) }
        Level2(p1, i0) ==
            UNION { Level3(pte_ppn(ReadPte(m, p1, i1)), i0, i1) : i1 \in ValidIdx(m, p1) }
    IN  UNION { Level2(pte_ppn(ReadPte(m, root, i0)), i0) : i0 \in ValidIdx(m, root) }

\* C4: a munmap whose page range holds a page no region owns a frame for
\* returns -1; the pages of the range before the first such page have been
\* unmapped and their frames released (nothing is rolled back); that page,
\* the later pages of the range and every page outside the range keep their
\* leaf entry and their owner.
C4_MunmapPartial ==
    [][ ( /\ Step("munmap")
          /\ \E vpn \in PagesOf(last'.start, last'.len) : OwnedFrames(areas, vpn) = {} )
        => LET pages == PagesOf(last'.start, last'.len)
               f == FirstUnowned(areas, pages)
               before == { vpn \in pages : vpn < f }
               recycled == { frame_allocator'.recycled[k] :
                               k \in 1..Len(frame_allocator'.recycled) }
           IN  /\ panic' = NoPanic
               /\ ret' = -1
               /\ \A vpn \in before :
                    /\ ~is_valid(LeafIn(mem', page_table'.root_ppn, vpn))
                    /\ OwnedFrames(areas', vpn) = {}
                    /\ OwnedFrames(areas, vpn) # {}
                    /\ OwnedFrames(areas, vpn) \subseteq recycled
               \* the other pages: the same pages are mapped, by the same entries
               /\ MappedPages(mem', page_table'.root_ppn)
                    = MappedPages(mem, page_table.root_ppn) \ before
               /\ \A vpn \in MappedPages(mem', page_table'.root_ppn) :
                    LeafIn(mem', page_table'.root_ppn, vpn) = Leaf(vpn)
               \* and every region owns the same frames for them
               /\ Len(areas') = Len(areas)
               /\ \A i \in 1..Len(areas) :
                    /\ DOMAIN areas'[i].data_frames = DOMAIN areas[i].data_frames \ before
                    /\ \A vpn \in DOMAIN areas'[i].data_frames :
                         areas'[i].data_frames[vpn] = areas[i].data_frames[vpn] ]_vars

\* a munmap over two pages has failed at the second page after unmapping the
\* first, which an mmap region had owned
C4_Witness ==
    /\ Returned("munmap") /\ ret = -1 /\ nops = 2
    /\ \E i \in MmapAreas :
         /\ areas[i].l = floor(VirtAddr_from(last.start))
         /\ areas[i].r = areas[i].l + 1
         /\ DOMAIN areas[i].data_frames = {}
    /\ Cardinality(PagesOf(last.start, last.len)) >= 2
    /\ \A vpn \in PagesOf(last.start, last.len) : ~ValidLeaf(vpn)

\* C5: mmap returns -1 and leaves the address space unchanged (page table,
\* regions, physical memory, frame allocator) when start is not a multiple
\* of 4096, or port has a bit set outside its low three, or the low three
\* bits of port are all zero, for every len and every prior state.
C5_MmapRejectsBadArgs ==
    [][ ( /\ Step("mmap")
          /\ \/ last'.start % 4096 # 0
             \/ last'.port \div 8 # 0
             \/ last'.port % 8 = 0 )
        => /\ panic' = NoPanic
           /\ ret' = -1
           /\ UNCHANGED << page_table, areas, mem, frame_allocator >> ]_vars

\* an mmap with permission bits 0 has been refused in a space that already
\* holds an mmap region
C5_Witness ==
    /\ Returned("mmap") /\ ret = -1
    /\ last.port = 0
    /\ MmapAreas # {}

\* C6: a requested range that is already mapped is a user-recoverable error:
\* whenever a page of the mmap target range has a valid leaf entry, by
\* whatever path it was mapped (an earlier mmap, an image segment, the user
\* stack, the trap-context page, the trampoline page, an Identical region),
\* mmap returns -1 and the double-map abort is not reached.
C6_AlreadyMappedRecoverable ==
    [][ ( /\ Step("mmap")
          /\ \E vpn \in PagesOf(last'.start, last'.len) : ValidLeaf(vpn) )
        => /\ panic' = NoPanic
           /\ ret' = -1 ]_vars

\* the page of the trampoline
TrampolineVpn == floor(VirtAddr_from(TRAMPOLINE))

\* C7 (as stated): from_elf on bytes that do not start with 0x7f 'E' 'L' 'F'
\* fails, and at the failure no leaf entry of the new page table is valid
\* and no region exists.
C7_BadMagicMapsNothing ==
    (kind = "user" /\ built_from.magic # <<127, 69, 76, 70>>)
    => /\ panic = "invalid elf!"
       /\ areas = << >>
       /\ \A vpn \in AllVpns : ~ValidLeaf(vpn)

\* C7 (amended): from_elf on bytes that do not start with 0x7f 'E' 'L' 'F'
\* fails, and at the failure no region exists and the trampoline page is the
\* only page with a valid leaf entry: it maps the trampoline code read+execute.
C7_BadMagicMapsOnlyTrampoline ==
    (kind = "user" /\ built_from.magic # <<127, 69, 76, 70>>)
    => /\ panic = "invalid elf!"
       /\ areas = << >>
       /\ \A vpn \in AllVpns : ValidLeaf(vpn) <=> vpn = TrampolineVpn
       /\ pte_ppn(Leaf(TrampolineVpn)) = floor(Strampoline)
       /\ pte_flags(Leaf(TrampolineVpn)) = PTE_V + PTE_R + PTE_X

\* from_elf has failed on an image without the magic, after the table pages
\* of the trampoline's path were taken from the allocator
C7_Witness ==
    /\ kind = "user"
    /\ built_from.magic # <<127, 69, 76, 70>>
    /\ panic = "invalid elf!"
    /\ Len(page_table.frames) = 3

\* the pages of the section [s, e)
SectionPages(s, e) == floor(s)..(ceil(e) - 1)

\* C10: in the kernel address space built by new_kernel, every page of the
\* code section and of the read-only-data section has a valid, non-writable
\* leaf entry, every page of the data and zero-data sections has a valid,
\* non-executable leaf entry, and each of these entries maps the page to the
\* physical page of the same number.
C10_KernelSections ==
    kind = "kernel"
    => /\ \A vpn \in SectionPages(built_from.stext, built_from.etext)
                       \cup SectionPages(built_from.srodata, built_from.erodata) :
            ValidLeaf(vpn) /\ ~writable(Leaf(vpn)) /\ pte_ppn(Leaf(vpn)) = vpn
       /\ \A vpn \in SectionPages(built_from.sdata, built_from.edata)
                       \cup SectionPages(built_from.sbss_with_stack, built_from.ebss) :
            ValidLeaf(vpn) /\ ~executable(Leaf(vpn)) /\ pte_ppn(Leaf(vpn)) = vpn

\* the kernel space of the layout whose read-only data ends inside a page
C10_Witness ==
    /\ kind = "kernel"
    /\ built_from.erodata % PAGE_SIZE # 0
    /\ Cardinality(SectionPages(built_from.stext, built_from.etext)) = 3
    /\ \A vpn \in SectionPages(built_from.srodata, built_from.erodata) : readable(Leaf(vpn))

\* the pages touched by the bytes [ptr, ptr + len)
TouchedPages(ptr, len) == (ptr \div PAGE_SIZE)..((ptr + len - 1) \div PAGE_SIZE)

\* the summed lengths of the views v[k..]
RECURSIVE ViewsLength(_, _)
ViewsLength(v, k) ==
    IF k > Len(v) THEN 0 ELSE (v[k].hi - v[k].lo) + ViewsLength(v, k + 1)

\* C8: for a buffer [ptr, ptr + len) with len >= 1 whose pages are all
\* mapped, translated_byte_buffer returns one view per page touched, in
\* ascending page order; the lengths of the views sum to len; every view but
\* the last ends at a page boundary; view k covers the physical bytes backing
\* the part of the k-th touched page that lies in the buffer.
C8_ViewsPerPage ==
    ( /\ Returned("translated_byte_buffer")
      /\ last.len >= 1
      /\ \A vpn \in TouchedPages(last.start, last.len) : ValidLeaf(vpn) )
    => LET first == last.start \div PAGE_SIZE
           n == Cardinality(TouchedPages(last.start, last.len))
           end == last.start + last.len
       IN  /\ Len(views) = n
           /\ ViewsLength(views, 1) = last.len
           /\ \A k \in 1..n :
                /\ views[k].ppn = pte_ppn(Leaf(first + k - 1))
                /\ views[k].lo = Max(last.start, (first + k - 1) * PAGE_SIZE) % PAGE_SIZE
                /\ views[k].hi - views[k].lo
                     = Min(end, (first + k) * PAGE_SIZE)
                         - Max(last.start, (first + k - 1) * PAGE_SIZE)
                /\ k < n => views[k].hi = PAGE_SIZE

\* a buffer that starts one byte into a page and ends one byte into the
\* page after the next has been split into three views
C8_Witness ==
    /\ Returned("translated_byte_buffer")
    /\ \A vpn \in TouchedPages(last.start, last.len) : ValidLeaf(vpn)
    /\ Len(views) = 3
    /\ views[1].lo = 1 /\ views[2].hi - views[2].lo = PAGE_SIZE /\ views[3].hi = 1

\* C9: sys_get_time and sys_task_info, given a destination ptr whose touched
\* pages are all mapped, return 0 and write, for every offset i of the
\* record, byte i of the record to the physical byte backing ptr + i, and
\* write no other byte, also when the record straddles a page boundary and
\* the two pages have non-adjacent frames.
C9_RecordBytes ==
    ( /\ Returned("sys_get_time") \/ Returned("sys_task_info")
      /\ \A vpn \in TouchedPages(last.start, last.len) : ValidLeaf(vpn) )
    => LET frame == [vpn \in TouchedPages(last.start, last.len) |-> pte_ppn(Leaf(vpn))]
           \* the physical byte backing the virtual address va
           Backing(va) == frame[va \div PAGE_SIZE] * PAGE_SIZE + (va % PAGE_SIZE)
       IN  /\ ret = 0
           /\ last.len = IF last.op = "sys_get_time" THEN 16 ELSE 2016
           /\ \A i \in 0..(last.len - 1) :
                \E k \in 1..Len(written) :
                  /\ written[k].src <= i
                  /\ i < written[k].src + (written[k].hi - written[k].lo)
                  /\ written[k].ppn * PAGE_SIZE + written[k].lo + (i - written[k].src)
                       = Backing(last.start + i)
           \* no other byte: the writes are as many bytes as the record has
           /\ ViewsLength(written, 1) = last.len

\* a time record has been written across a page boundary into two frames of
\* which the second does not follow the first
C9_Witness ==
    /\ Returned("sys_get_time") /\ ret = 0
    /\ \A vpn \in TouchedPages(last.start, last.len) : ValidLeaf(vpn)
    /\ Len(written) = 2
    /\ written[2].ppn # written[1].ppn + 1
    /\ written[2].src = 8

\* C11: translate(vpn), on the address space and on the page table, returns
\* absent for every virtual page that is not mapped: for a page whose walk
\* meets a missing intermediate level and for a page whose tables exist but
\* whose leaf entry is not Valid.
C11_TranslateAbsentWhenUnmapped ==
    (kind # "boot" /\ panic = NoPanic)
    => \A vpn \in AllVpns :
         ~ValidLeaf(vpn)
         => /\ ~MemorySet_translate(Kernel, vpn).some
            /\ ~PageTable_translate(mem, page_table.root_ppn, vpn).some

\* C12: translated_byte_buffer ends in a fatal lookup failure, and returns
\* no view, whenever a page overlapping [ptr, ptr + len) is unmapped, also
\* when the page lies next to mapped pages (its tables exist) or was mapped
\* and unmapped again.
C12_UnmappedBufferIsFatal ==
    [][ ( /\ Step("translated_byte_buffer")
          /\ \E vpn \in TouchedPages(last'.start, last'.len) : ~ValidLeaf(vpn) )
        => /\ panic' = "unwrap on None"
           /\ views' = << >> ]_vars

\* the root numbers the token is formed of: every number that fits the PPN
\* field on a freshly built space, the space's own root afterwards
TokenRoots == IF nops = 0 THEN 0..(PPN_MOD - 1) ELSE { page_table.root_ppn }

\* the pages looked up through the view: every page on a freshly built
\* space, afterwards the mapped pages and the pages of the last call
TokenVpns ==
    IF nops = 0 THEN AllVpns
    ELSE MappedPages(mem, page_table.root_ppn)
           \cup (PagesOf(last.start, last.len) \cap AllVpns)

\* C13: for a root page number that fits the PPN field (44 bits on the
\* hardware), token() has the mode constant 8 in its top 4 bits, zero in the
\* bits between the PPN field and the mode, and the root number in the PPN
\* field; from_token(token()) is a view with the same root, and translate
\* through the view gives what translate through the table gives.
C13_TokenRoundTrip ==
    []( kind # "boot"
        => /\ \A ppn \in TokenRoots :
                /\ PageTable_token(ppn) \div (2 ^ (USIZE_WIDTH - 4)) = 8
                /\ (PageTable_token(ppn) % (2 ^ (USIZE_WIDTH - 4))) \div PPN_MOD = 0
                /\ PageTable_token(ppn) % PPN_MOD = ppn
                /\ PageTable_from_token(PageTable_token(ppn)) = ppn
           /\ page_table.root_ppn < PPN_MOD
           /\ \A vpn \in TokenVpns :
                PageTable_translate(mem,
                    PageTable_from_token(PageTable_token(page_table.root_ppn)), vpn)
                  = PageTable_translate(mem, page_table.root_ppn, vpn) )

\* a user space whose root is a recycled frame has mapped a page by mmap,
\* and the view made from its token finds that page
C13_Witness ==
    /\ kind = "user" /\ Returned("mmap") /\ ret = 0
    /\ page_table.root_ppn = FrameBase + 1
    /\ \A vpn \in PagesOf(last.start, last.len) :
         is_valid(LeafIn(mem, PageTable_from_token(PageTable_token(page_table.root_ppn)), vpn))

\* the next state holds the kernel-state record K and the status r of a call
\* that returns only if the kernel did not abort
SameOutcome(K, r) ==
    /\ page_table' = [root_ppn |-> K.root_ppn, frames |-> K.frames]
    /\ areas' = K.areas
    /\ mem' = K.mem
    /\ frame_allocator' = K.fa
    /\ panic' = K.panic
    /\ ret' = IF K.panic # NoPanic THEN ret ELSE r

\* C14: mmap(start, len, port) with len below 4096, len = 0 included, has
\* the return value and the resulting state of mmap(start, 4096, port), and
\* maps exactly one page when it succeeds; munmap(start, len) with len below
\* 4096 has the return value and the resulting state of munmap(start, 4096).
C14_LengthClamped ==
    [][ /\ (Step("mmap") /\ last'.len < 4096)
          => LET Same(r) ==
                     /\ SameOutcome(r.K, r.ret)
                     /\ (r.K.panic = NoPanic /\ r.ret = 0)
                          => Cardinality(MappedPages(mem', page_table'.root_ppn)
                                           \ MappedPages(mem, page_table.root_ppn)) = 1
             IN  Same(MemorySet_mmap(Kernel, last'.start, 4096, last'.port))
        /\ (Step("munmap") /\ last'.len < 4096)
          => LET Same(r) == SameOutcome(r.K, r.ret)
             IN  Same(MemorySet_munmap(Kernel, last'.start, 4096)) ]_vars

\* an mmap of length 0 has mapped one page, in a space that holds two mmap
\* regions
C14_Witness ==
    /\ Returned("mmap") /\ ret = 0 /\ last.len = 0
    /\ areas[Len(areas)].r = areas[Len(areas)].l + 1
    /\ DOMAIN areas[Len(areas)].data_frames = { areas[Len(areas)].l }
    /\ Cardinality(MmapAreas) = 2

\* the step is an mmap, a munmap, an append_to or a shrink_to whose new end
\* is not above the end of the region it finds, on a region of a user space
\* (an mmap over the trampoline page is not a call on a region)
UserRequestStep ==
    /\ kind = "user"
    /\ \/ Step("mmap") /\ TrampolineVpn \notin PagesOf(last'.start, last'.len)
       \/ Step("munmap")
       \/ Step("append_to")
       \/ /\ Step("shrink_to")
          /\ LET NotAbove(i) == i = 0 \/ ceil(last'.len) <= areas[i].r
             IN  NotAbove(FindAreaByStart(areas, floor(last'.start)))

\* C15: from a user address space built by from_elf from a valid image, no
\* sequence of mmap, munmap, append_to and shrink_to (with a new end not
\* above the current end) reaches the double-map or the double-unmap
\* assertion: an invalid request ends in a -1 / false status.
C15_NoFatalFromUserOps ==
    [][ UserRequestStep
        => panic' \notin { "mapped before mapping", "invalid before unmapping" } ]_vars

\* the regions whose frame map has an entry for the page
Owners(as, vpn) == { j \in 1..Len(as) : vpn \in DOMAIN as[j].data_frames }

\* C16: in a user address space reached without an abort, every entry
\* (vpn, frame) of a region's frame map has a valid leaf for vpn whose ppn
\* is that frame, and every valid leaf with the U flag is backed by exactly
\* one region's frame map.
C16_RegionsMatchTable ==
    (kind = "user" /\ panic = NoPanic)
    => /\ \A i \in 1..Len(areas) : \A vpn \in DOMAIN areas[i].data_frames :
            /\ ValidLeaf(vpn)
            /\ pte_ppn(Leaf(vpn)) = areas[i].data_frames[vpn]
       /\ \A vpn \in MappedPages(mem, page_table.root_ppn) :
            HasBit(pte_flags(Leaf(vpn)), PTE_U) => Cardinality(Owners(areas, vpn)) = 1

SeqRange(s) == { s[i] : i \in 1..Len(s) }
PoolFrames == FrameBase..(FrameBase + NFrames - 1)
\* the frames the pool can hand out: released ones and those never handed out
FreeFrames(fa) == SeqRange(fa.recycled) \cup { p \in PoolFrames : p >= fa.current }
\* an owner is a position of the table-frame list, <<0, i>>, or an entry of a
\* region's frame map, <<region, vpn>>
FrameOwners(pt, as) ==
    { <<0, i>> : i \in 1..Len(pt.frames) }
    \cup UNION { { <<j, vpn>> : vpn \in DOMAIN as[j].data_frames } : j \in 1..Len(as) }
FrameOf(pt, as, o) ==
    IF o[1] = 0 THEN pt.frames[o[2]] ELSE as[o[1]].data_frames[o[2]]
OwnedSet(pt, as) == { FrameOf(pt, as, o) : o \in FrameOwners(pt, as) }
\* frames handed out and not freed that no owner of this address space holds
Unowned(pt, as, fa) == (PoolFrames \ FreeFrames(fa)) \ OwnedSet(pt, as)
\* the pages inside the declared range of an Identical region
IdenticalPages(as) ==
    UNION { as[j].l .. (as[j].r - 1) :
              j \in { i \in 1..Len(as) : as[i].map_type = Identical } }
\* the frames the valid entries of the root and second-level tables refer to
TableEntries(m, root) ==
    LET Below(p1) == { pte_ppn(ReadPte(m, p1, i1)) : i1 \in ValidIdx(m, p1) }
    IN  { pte_ppn(ReadPte(m, root, i0)) : i0 \in ValidIdx(m, root) }
        \cup UNION { Below(pte_ppn(ReadPte(m, root, i0))) : i0 \in ValidIdx(m, root) }

\* the valid leaf entries of a page table, as pairs <<vpn, entry>>
LeafEntries(m, root) ==
    LET Level3(p2, i0, i1) ==
            { << (i0 * NIdx + i1) * NIdx + i2, ReadPte(m, p2, i2) >> : i2 \in ValidIdx(m, p2) }
        Level2(p1, i0) ==
            UNION { Level3(pte_ppn(ReadPte(m, p1, i1)), i0, i1) : i1 \in ValidIdx(m, p1) }
    IN  UNION { Level2(pte_ppn(ReadPte(m, root, i0)), i0) : i0 \in ValidIdx(m, root) }

\* owners hold distinct frames, none of them free; the leaves of the pages in
\* Distinct refer to pairwise distinct frames; intermediate entries refer to
\* table frames, and no leaf of the pages in Checked refers to a frame in Gone
ExclusiveIn(Distinct, Checked, Gone) ==
    LET LeafFrames(S) ==
            { pte_ppn(e[2]) : e \in { x \in LeafEntries(mem, page_table.root_ppn) : x[1] \in S } }
        Apart(owners, owned) ==
            /\ Cardinality(owned) = Cardinality(owners)
            /\ owned \cap FreeFrames(frame_allocator) = {}
        Leaves(D, C) ==
            /\ Cardinality(LeafFrames(D)) = Cardinality(D)
            /\ LeafFrames(C) \cap Gone = {}
    IN  /\ Apart(FrameOwners(page_table, areas), OwnedSet(page_table, areas))
        /\ Leaves(Distinct, Checked)
        /\ TableEntries(mem, page_table.root_ppn) \subseteq SeqRange(page_table.frames)
\* a step of a running kernel leaves no handed-out frame without an owner
NoFrameLeaked ==
    ( /\ panic' = NoPanic
      /\ << page_table, areas, frame_allocator >>' # << page_table, areas, frame_allocator >> )
    => Unowned(page_table', areas', frame_allocator')
         \subseteq Unowned(page_table, areas, frame_allocator)
FramedLeaves == MappedPages(mem, page_table.root_ppn) \ IdenticalPages(areas)

\* C17 (as stated): in every reachable state of an address space each frame
\* handed out and not freed has exactly one owner, no two valid leaves of
\* Framed pages refer to the same frame, and no valid leaf or intermediate
\* entry refers to a frame released back to the pool.
C17_FrameExclusivity ==
    /\ [](kind # "boot"
          => ExclusiveIn(FramedLeaves, MappedPages(mem, page_table.root_ppn),
                         SeqRange(frame_allocator.recycled)))
    /\ [][ NoFrameLeaked ]_vars

\* C17 (amended): the same, with the last part about the valid leaves of
\* pages outside the Identical regions and about the intermediate entries;
\* the leaves of the kernel's Identical region over physical memory refer
\* to every frame of the pool, free or not.
C17_FrameExclusivityFramed ==
    /\ [](kind # "boot"
          => ExclusiveIn(FramedLeaves, FramedLeaves, FreeFrames(frame_allocator)))
    /\ [][ NoFrameLeaked ]_vars

\* a munmap has emptied a region, releasing its frame to the pool, and a
\* later mmap has been handed a frame
C17_Witness ==
    /\ Returned("mmap") /\ ret = 0
    /\ frame_allocator.recycled = << >>
    /\ \E j \in MmapAreas : areas[j].l < areas[j].r /\ DOMAIN areas[j].data_frames = {}
    /\ DOMAIN areas[Len(areas)].data_frames # {}

\* no two regions of the list have declared ranges [l, r) that share a page
NoOverlap(as) ==
    \A i, j \in 1..Len(as) :
        i < j => (as[i].r <= as[j].l \/ as[j].r <= as[i].l
                  \/ as[i].l >= as[i].r \/ as[j].l >= as[j].r)

\* C18: an mmap or munmap call that returns, made in an address space whose
\* regions' declared ranges do not overlap, leaves an address space whose
\* regions' declared ranges do not overlap.
C18_MmapKeepsRegionsApart ==
    [][ ( /\ Step("mmap") \/ Step("munmap")
          /\ panic' = NoPanic
          /\ NoOverlap(areas) )
        => NoOverlap(areas') ]_vars

\* the regions, other than the newest, whose declared range holds the page
DeclaredIn(as, vpn) ==
    { j \in 1..(Len(as) - 1) : as[j].l <= vpn /\ vpn < as[j].r }

SegmentEnds(elf) ==
    { ceil(VirtAddr_from(elf.phs[i].vaddr + elf.phs[i].mem_size)) :
        i \in { k \in 1..Len(elf.phs) : elf.phs[k].type = "Load" } }
\* the pages of the loadable segments of an image
SegmentPagesOf(elf) ==
    UNION { floor(VirtAddr_from(elf.phs[i].vaddr))
              .. (ceil(VirtAddr_from(elf.phs[i].vaddr + elf.phs[i].mem_size)) - 1) :
            i \in { k \in 1..Len(elf.phs) : elf.phs[k].type = "Load" } }
HighestEnd(elf) == CHOOSE e \in SegmentEnds(elf) : \A f \in SegmentEnds(elf) : f <= e

\* C20: for every image with the ELF magic, whatever the order of its
\* loadable segments, from_elf returns with the stack bottom one page above
\* the highest ending page over all loadable segments: that guard page is
\* unmapped, the pages [bottom, bottom + USER_STACK_SIZE) are mapped R+W+U,
\* the stack top returned is bottom + USER_STACK_SIZE, and no stack page is
\* a page of a segment.
C20_StackAboveHighestSegment ==
    (kind = "user" /\ last.op = "from_elf" /\ built_from.magic = ELF_MAGIC)
    => LET StackPages(b) == b .. (b + USER_STACK_SIZE \div PAGE_SIZE - 1)
           Placed(guard) ==
               /\ panic = NoPanic
               /\ ~ValidLeaf(guard)
               /\ \A vpn \in StackPages(guard + 1) :
                    pte_flags(Leaf(vpn)) = PTE_V + PTE_R + PTE_W + PTE_U
               /\ user_sp = (guard + 1) * PAGE_SIZE + USER_STACK_SIZE
               /\ StackPages(guard + 1) \cap SegmentPagesOf(built_from) = {}
       IN  Placed(HighestEnd(built_from))

TrapContextVpn == floor(VirtAddr_from(TRAP_CONTEXT_BASE))

\* C21: the trap-context page of a user address space built by from_elf is
\* valid with R+W, without U and X, and an mmap or munmap call on that
\* address space leaves its leaf entry (frame and flags) as it was.
C21_TrapContextStays ==
    /\ []( (kind = "user" /\ Returned("from_elf"))
           => pte_flags(Leaf(TrapContextVpn)) = PTE_V + PTE_R + PTE_W )
    /\ [][ (kind = "user" /\ (Step("mmap") \/ Step("munmap")))
           => LeafIn(mem', page_table'.root_ppn, TrapContextVpn) = Leaf(TrapContextVpn) ]_vars

\* the physical page of the trampoline code of the address space
TrampolineFrame ==
    floor(IF kind = "kernel" THEN built_from.strampoline ELSE Strampoline)

\* C22: in an address space built by new_kernel or from_elf, after any
\* sequence of mmap, munmap, shrink_to and append_to calls that does not
\* abort, the leaf of the trampoline page is valid with exactly V+R+X and
\* refers to the page of the trampoline code, and the page lies in no
\* region's declared range and is no key of a region's frame map.
C22_TrampolinePermanent ==
    (kind # "boot" /\ panic = NoPanic)
    => /\ Leaf(TrampolineVpn)
            = PageTableEntry_new(TrampolineFrame, PTE_V + PTE_R + PTE_X)
       /\ \A i \in 1..Len(areas) :
            /\ ~(areas[i].l <= TrampolineVpn /\ TrampolineVpn < areas[i].r)
            /\ TrampolineVpn \notin DOMAIN areas[i].data_frames

\* a munmap whose range is the trampoline page has returned
C22_Witness ==
    /\ Returned("munmap")
    /\ PagesOf(last.start, last.len) = { TrampolineVpn }
    /\ ret = -1

\* the pages map and unmap are tried on: below and at the heap bottom, a
\* page under other indices, and the trampoline page
ProbeVpns ==
    { floor(VirtAddr_from(H)) - 1, floor(VirtAddr_from(H)),
      floor(VirtAddr_from(Far)), TrampolineVpn }
ProbeFlags == { PTE_R + PTE_W + PTE_U }

\* map(vpn, ppn, flags) applied to the current state
MapOutcome(vpn, ppn, flags) ==
    LET Then(K2) ==
            IF ValidLeaf(vpn)
            THEN K2.panic = "mapped before mapping" /\ K2.mem = mem
            ELSE /\ K2.panic \in { NoPanic, "oom" }
                 /\ K2.panic = NoPanic
                    => PageTable_translate(K2.mem, K2.root_ppn, vpn)
                         = [some |-> TRUE, pte |-> PageTableEntry_new(ppn, flags + PTE_V)]
    IN  Then(PageTable_map(Kernel, vpn, ppn, flags))

\* unmap(vpn) applied to the current state
UnmapOutcome(vpn) ==
    LET Then(K2) ==
            IF ValidLeaf(vpn)
            THEN /\ K2.panic = NoPanic
                 /\ PageTable_translate(K2.mem, K2.root_ppn, vpn)
                      = [some |-> TRUE, pte |-> PageTableEntry_empty]
            ELSE /\ K2.panic \in { "invalid before unmapping", "unwrap on None" }
                 /\ K2.mem = mem
    IN  Then(PageTable_unmap(Kernel, vpn))

\* a step that changes the page table leaves every leaf that was valid
\* either as it was or cleared
ValidLeafKept ==
    mem' # mem
    => \A e \in LeafEntries(mem, page_table.root_ppn) :
         LeafIn(mem', page_table'.root_ppn, e[1]) \in { e[2], PageTableEntry_empty }

\* C23: map on a page whose leaf is valid aborts and changes no entry; unmap
\* on a page whose leaf is not valid, or whose table is missing, aborts and
\* changes no entry; a map that succeeds sets the leaf to ppn with the flags
\* and V, an unmap that succeeds clears the leaf to the empty entry; and no
\* step of the address space's operations overwrites a valid leaf.
C23_PreconditionsFatal ==
    /\ []( (kind # "boot" /\ panic = NoPanic)
           => \A vpn \in ProbeVpns :
                /\ UnmapOutcome(vpn)
                /\ \A flags \in ProbeFlags : MapOutcome(vpn, FrameBase + 1, flags) )
    /\ [][ ValidLeafKept ]_vars

\* an operation has aborted in map on a page whose leaf was valid, after
\* another operation had returned
C23_Witness ==
    /\ panic = "mapped before mapping"
    /\ nops >= 2
    /\ ValidLeaf(floor(VirtAddr_from(last.start)))

\* the pages the walk of map is tried on: the heap bottom, a page that shares
\* only its first index with it, and a page under another first index
WalkVpns ==
    { floor(VirtAddr_from(H)), floor(VirtAddr_from(H)) + NIdx, NIdx * NIdx + 1 }

\* the number of intermediate entries on the path of vpn that are not valid
AbsentLevels(vpn) ==
    LET Second(p0, idxs) ==
            IF ~is_valid(p0) THEN 2
            ELSE IF ~is_valid(ReadPte(mem, pte_ppn(p0), idxs[2])) THEN 1 ELSE 0
        First(idxs) == Second(ReadPte(mem, page_table.root_ppn, idxs[1]), idxs)
    IN  First(indexes(vpn))

\* map(vpn, ..) applied to the current state, when it returns
WalkOutcome(vpn) ==
    LET n == Len(page_table.frames)
        Fresh(K2) == { K2.frames[i] : i \in (n + 1)..Len(K2.frames) }
        NewKeys(K2) == DOMAIN K2.mem \ DOMAIN mem
        \* a page with the same first two indices, one with the same first index
        Beside(v) == IF v % NIdx = NIdx - 1 THEN v - 1 ELSE v + 1
        Near(v) == IF (v \div NIdx) % NIdx = NIdx - 1 THEN v - NIdx ELSE v + NIdx
        Then(K2) ==
            K2.panic = NoPanic
            => /\ Len(K2.frames) = n + AbsentLevels(vpn)
               /\ SubSeq(K2.frames, 1, n) = page_table.frames
               /\ Fresh(K2) \subseteq FreeFrames(frame_allocator)
               /\ Fresh(K2) \cap FreeFrames(K2.fa) = {}
               /\ Cardinality(Fresh(K2)) = AbsentLevels(vpn)
               /\ \A k \in DOMAIN mem : k \in DOMAIN K2.mem /\ K2.mem[k] = mem[k]
               /\ Cardinality(NewKeys(K2)) = AbsentLevels(vpn) + 1
               /\ { K2.mem[k] : k \in NewKeys(K2) }
                    = { PageTableEntry_new(f, PTE_V) : f \in Fresh(K2) }
                      \cup { PageTableEntry_new(FrameBase + 1, PTE_V + PTE_R) }
               /\ find_pte(K2.mem, K2.root_ppn, vpn).some
               /\ Len(PageTable_map(K2, Beside(vpn), FrameBase + 1, PTE_R).frames)
                    = Len(K2.frames)
               /\ Len(PageTable_map(K2, Near(vpn), FrameBase + 1, PTE_R).frames)
                    <= Len(K2.frames) + 1
    IN  Then(PageTable_map(Kernel, vpn, FrameBase + 1, PTE_R))

\* C24: a map call that returns has walked three levels: it allocated as
\* many table frames as intermediate entries on the page's path were absent
\* (0, 1 or 2), each fresh, entered with exactly the flag V and appended to
\* the page table's frame list; every entry that existed is unchanged; and a
\* page sharing both or only the first index reuses the tables just made.
C24_WalkCreatesAbsentLevels ==
    []( (kind # "boot" /\ panic = NoPanic)
        => \A vpn \in WalkVpns : WalkOutcome(vpn) )

\* an mmap has returned 0 on a page whose last-level table is the newest
\* frame of the page table's frame list
C24_Witness ==
    /\ Returned("mmap") /\ ret = 0
    /\ LET At(f) == f.some /\ f.ppn = page_table.frames[Len(page_table.frames)]
       IN  At(find_pte(mem, page_table.root_ppn, floor(VirtAddr_from(last.start))))
    /\ Cardinality(DOMAIN areas[Len(areas)].data_frames) = 2

\* the entries of the regions' frame maps, and the frames they hold
DataOwners(as) ==
    UNION { { <<j, vpn>> : vpn \in DOMAIN as[j].data_frames } : j \in 1..Len(as) }
DataFrames(as) == { as[o[1]].data_frames[o[2]] : o \in DataOwners(as) }
\* the kernel state after the step
KernelAfter ==
    [root_ppn |-> page_table'.root_ppn, frames |-> page_table'.frames,
     areas |-> areas', mem |-> mem', fa |-> frame_allocator', panic |-> panic']

\* a munmap that returned 0 over n pages
MunmapReleases(n) ==
    /\ Cardinality(DataOwners(areas')) = Cardinality(DataOwners(areas)) - n
    /\ Len(frame_allocator'.recycled) = Len(frame_allocator.recycled) + n
    /\ SeqRange(frame_allocator'.recycled)
         = SeqRange(frame_allocator.recycled)
           \cup (DataFrames(areas) \ DataFrames(areas'))
    /\ frame_allocator'.current = frame_allocator.current
    /\ page_table' = page_table
    /\ TableEntries(mem', page_table'.root_ppn) = TableEntries(mem, page_table.root_ppn)

\* an mmap that returned 0: the munmap of the same range and the same mmap
\* again, applied to the state it left
MmapUndone(start, len, port) ==
    LET Again(K2, r) ==
            /\ r.K.panic = NoPanic /\ r.ret = 0
            /\ r.K.frames = K2.frames
        Back(r) ==
            /\ r.K.panic = NoPanic /\ r.ret = 0
            /\ Cardinality(DataOwners(r.K.areas)) = Cardinality(DataOwners(areas))
            /\ r.K.frames = page_table'.frames
            /\ Again(r.K, MemorySet_mmap(r.K, start, len, port))
    IN  Back(MemorySet_munmap(KernelAfter, start, len))

\* C25: a munmap that returns 0 over n pages releases exactly n data frames
\* to the pool and leaves the page table's frame list and intermediate
\* entries as they were; after an mmap that returned 0, the munmap of the
\* same range returns 0 with as many data frames owned as before the mmap,
\* and the same mmap again returns 0 without a new table frame; no step
\* shortens the page table's frame list.
C25_DataFramesConserved ==
    [][ /\ (Step("munmap") /\ panic' = NoPanic /\ ret' = 0)
           => MunmapReleases(Cardinality(PagesOf(last'.start, last'.len)))
        /\ (Step("mmap") /\ panic' = NoPanic /\ ret' = 0)
           => MmapUndone(last'.start, last'.len, last'.port)
        /\ kind # "boot"
           => SubSeq(page_table'.frames, 1, Len(page_table.frames)) = page_table.frames ]_vars

\* a munmap over two pages has returned 0, after the mmap of the range
C25_Witness ==
    /\ Returned("munmap") /\ ret = 0 /\ nops >= 2
    /\ Cardinality(PagesOf(last.start, last.len)) = 2
    /\ \E j \in MmapAreas :
         /\ areas[j].l = floor(VirtAddr_from(last.start)) /\ areas[j].r = areas[j].l + 2
         /\ DOMAIN areas[j].data_frames = {}
    /\ Len(frame_allocator.recycled) >= 2

\* C26: translated_byte_buffer, with the page table it builds by from_token
\* and the translate calls it makes, on a mapped or an unmapped range,
\* allocates and releases no frame and leaves every entry, the page table's
\* frame list and every region as they were; the page table built from the
\* token owns no frame.
C26_LookupsReadOnly ==
    /\ []( kind # "boot"
           => PageTable_from_token_frames(PageTable_token(page_table.root_ppn)) = << >> )
    /\ [][ ( \/ Step("translated_byte_buffer")
             \/ Step("sys_get_time")
             \/ Step("sys_task_info") )
           => UNCHANGED << page_table, areas, mem, frame_allocator >> ]_vars

\* translated_byte_buffer has returned two views of mapped pages, in an
\* address space that an earlier operation had changed
C26_Witness ==
    /\ Returned("translated_byte_buffer") /\ nops >= 2
    /\ Len(views) = 2
    /\ \A vpn \in TouchedPages(last.start, last.len) : ValidLeaf(vpn)
    /\ Cardinality(MmapAreas) >= 1

\* the region is Framed and holds, for every page of its declared range and
\* no other, a frame that the page's valid leaf refers to
FullyMapped(a) ==
    /\ a.map_type = Framed
    /\ DOMAIN a.data_frames = a.l .. (a.r - 1)
    /\ \A vpn \in a.l .. (a.r - 1) :
         ValidLeaf(vpn) /\ pte_ppn(Leaf(vpn)) = a.data_frames[vpn]

\* region i keeps the pages [a.l, upto) with their frames and leaves, has the
\* stored end new_end, and the other regions are as they were
RegionResized(i, upto, new_end) ==
    /\ Len(areas') = Len(areas)
    /\ \A j \in 1..Len(areas) : j # i => areas'[j] = areas[j]
    /\ areas'[i].l = areas[i].l /\ areas'[i].r = new_end
    /\ areas'[i].map_perm = areas[i].map_perm
    /\ DOMAIN areas'[i].data_frames = areas[i].l .. (new_end - 1)
    /\ \A vpn \in areas[i].l .. (upto - 1) :
         /\ areas'[i].data_frames[vpn] = areas[i].data_frames[vpn]
         /\ LeafIn(mem', page_table'.root_ppn, vpn) = Leaf(vpn)

\* shrink_to(n) on region i: the pages [n, e) are unmapped, their frames released
Shrunk(i, n) ==
    /\ RegionResized(i, n, n)
    /\ \A vpn \in n .. (areas[i].r - 1) :
         /\ ~is_valid(LeafIn(mem', page_table'.root_ppn, vpn))
         /\ areas[i].data_frames[vpn] \in SeqRange(frame_allocator'.recycled)
    /\ Len(frame_allocator'.recycled) = Len(frame_allocator.recycled) + (areas[i].r - n)

\* append_to(m) on region i: the pages [e, m) are mapped to fresh frames
\* with the region's permission
Grown(i, m) ==
    /\ RegionResized(i, areas[i].r, m)
    /\ \A vpn \in areas[i].r .. (m - 1) :
         /\ areas'[i].data_frames[vpn] \in FreeFrames(frame_allocator)
         /\ areas'[i].data_frames[vpn] \notin FreeFrames(frame_allocator')
         /\ LeafIn(mem', page_table'.root_ppn, vpn)
              = PageTableEntry_new(areas'[i].data_frames[vpn], areas[i].map_perm + PTE_V)
    /\ Cardinality({ areas'[i].data_frames[vpn] : vpn \in areas[i].r .. (m - 1) })
         = m - areas[i].r

\* the wrapper found no region: false, and nothing changed
NotFound ==
    ret' = 0 /\ UNCHANGED << page_table, areas, mem, frame_allocator >>

\* the first region of the list whose declared range starts at the page, 0
\* when no region starts there
FirstRegionAt(vpn) ==
    IF \A i \in 1..Len(areas) : areas[i].l # vpn THEN 0
    ELSE CHOOSE i \in 1..Len(areas) :
           areas[i].l = vpn /\ \A j \in 1..(i - 1) : areas[j].l # vpn

\* C27: a shrink_to / append_to call that returns acts on the first region
\* whose start page is floor(start) and returns true, or returns false and
\* changes nothing when there is none.  On a Framed region [s, e) whose
\* pages are all mapped, shrink_to to n, s <= n <= e, unmaps the pages
\* [n, e) and releases their frames, keeps [s, n) on the same frames and
\* stores the end n; append_to to m >= e maps [e, m) to fresh frames with the
\* region's permission, keeps [s, e) and stores the end m.
C27_ShrinkAndGrow ==
    [][ /\ (Step("shrink_to") /\ panic' = NoPanic)
           => LET On(i, n) ==
                      IF i = 0 THEN NotFound
                      ELSE /\ ret' = 1
                           /\ (FullyMapped(areas[i]) /\ areas[i].l <= n /\ n <= areas[i].r)
                              => Shrunk(i, n)
              IN  On(FirstRegionAt(floor(last'.start)), ceil(last'.len))
        /\ (Step("append_to") /\ panic' = NoPanic)
           => LET On(i, m) ==
                      IF i = 0 THEN NotFound
                      ELSE /\ ret' = 1
                           /\ (FullyMapped(areas[i]) /\ m >= areas[i].r) => Grown(i, m)
              IN  On(FirstRegionAt(floor(last'.start)), ceil(last'.len)) ]_vars

\* shrink_to has returned true on a region that keeps its first page and
\* has released another
C27_Witness ==
    /\ Returned("shrink_to") /\ ret = 1
    /\ frame_allocator.recycled # << >>
    /\ LET Kept(i) ==
               /\ i # 0
               /\ areas[i].r = ceil(last.len) /\ areas[i].l < areas[i].r
               /\ FullyMapped(areas[i])
       IN  Kept(FirstRegionAt(floor(last.start)))

\* the leaf flags of a page mapped for port: V and U, R / W / X by bits 0 / 1 / 2
PortFlags(port) ==
    PTE_V + PTE_U + (IF port % 2 = 1 THEN PTE_R ELSE 0)
                  + (IF (port \div 2) % 2 = 1 THEN PTE_W ELSE 0)
                  + (IF (port \div 4) % 2 = 1 THEN PTE_X ELSE 0)

\* from a state K2 in which mmap(start, len, p1) and then munmap(start, len)
\* have returned 0: for the port p2 mmap returns 0 with the pages carrying
\* the flags of p2, the munmap of the range returns 0, and the round can be
\* made once more
ReusableFrom(K2, start, len, p1, p2) ==
    LET Pages == PagesOf(start, len)
        Mapped(r, port) ==
            /\ r.K.panic = NoPanic /\ r.ret = 0
            /\ \A vpn \in Pages :
                 pte_flags(LeafIn(r.K.mem, r.K.root_ppn, vpn)) = PortFlags(port)
        Unmapped(r) ==
            /\ r.K.panic = NoPanic /\ r.ret = 0
            /\ \A vpn \in Pages : ~is_valid(LeafIn(r.K.mem, r.K.root_ppn, vpn))
        Fourth(r5) == Mapped(r5, p1) /\ Unmapped(MemorySet_munmap(r5.K, start, len))
        Third(r4) == Unmapped(r4) /\ Fourth(MemorySet_mmap(r4.K, start, len, p1))
        Second(r3) == Mapped(r3, p2) /\ Third(MemorySet_munmap(r3.K, start, len))
    IN  Second(MemorySet_mmap(K2, start, len, p2))

\* C28: after an mmap(start, len, p1) that returned 0 and the munmap of the
\* range that returned 0, mmap(start, len, p2) returns 0 for every port p2
\* in 1..7 and the pages of the range carry the flags of p2; the munmap of
\* the range returns 0 again, and so on for further rounds.
C28_UnmappedRangeReusable ==
    [][ ( /\ last.op = "mmap" /\ ret = 0
          /\ Step("munmap") /\ panic' = NoPanic /\ ret' = 0
          /\ last'.start = last.start /\ last'.len = last.len )
        => \A p2 \in 1..7 :
             ReusableFrom(KernelAfter, last.start, last.len, last.port, p2) ]_vars

\* an mmap has returned 0 on the range of a region that a munmap had emptied
\* and that had been mapped with another permission
C28_Witness ==
    /\ Returned("mmap") /\ ret = 0
    /\ \E j \in MmapAreas :
         /\ j < Len(areas)
         /\ areas[j].l = areas[Len(areas)].l /\ areas[j].r = areas[Len(areas)].r
         /\ areas[j].map_perm # areas[Len(areas)].map_perm
         /\ DOMAIN areas[j].data_frames = {}
    /\ \A vpn \in PagesOf(last.start, last.len) : pte_flags(Leaf(vpn)) = PortFlags(last.port)

====
